---- MODULE Spec2Model ----
(***************************************************************************)
(* Model of src/bert_gan.py: the driver main() and the class AdvBert with  *)
(* its three phases train_adv(), refine() and pred().                      *)
(*                                                                         *)
(* The collaborators imported from src.bert_trainer, src.bert_evaluator,   *)
(* src.load, src.build_model and src.utils are not part of bert_gan.py;    *)
(* their effect on the state (Mapping, BestCheckpoint, learning rate) is   *)
(* modelled from the design document (sections 3 and 4.3 to 4.5).          *)
(*                                                                         *)
(* Floating point options are exact rationals [num, den] with den > 0.     *)
(* A Mapping is identified by a version number: every mapping_step and     *)
(* every procrustes produces a version never seen before, reload_best      *)
(* brings back the version stored in the BestCheckpoint.                   *)
(***************************************************************************)
EXTENDS Integers, Sequences, FiniteSets, TLC

(* ------------------------------ bounds -------------------------------- *)
\* evaluations of one run: n_epochs + n_refinement
MaxEvals == 3
MaxBatches == 3
MaxDisSteps == 2
MaxScore == 3
\* sentences of the file given as --src_file
MaxSentences == 2

(* ----------------------------- rationals ------------------------------ *)
Rat(n, d) == [num |-> n, den |-> d]

RECURSIVE GCD(_, _)
GCD(a, b) == IF b = 0 THEN a ELSE GCD(b, a % b)

Abs(x) == IF x < 0 THEN -x ELSE x

Norm(r) ==
    LET g == GCD(Abs(r.num), r.den)
    IN  IF g = 0 THEN r ELSE Rat(r.num \div g, r.den \div g)

Mul(a, b) == Norm(Rat(a.num * b.num, a.den * b.den))
Less(a, b) == a.num * b.den < b.num * a.den
Leq(a, b) == a.num * b.den <= b.num * a.den

Zero == Rat(0, 1)
Half == Rat(1, 2)
One == Rat(1, 1)

(* --------------------------- option values ---------------------------- *)
\* defaults of the argument parser
DefaultDropout == Rat(0, 1)
DefaultInputDropout == Rat(1, 10)
DefaultSmooth == Rat(1, 10)
DefaultLambda == Rat(1, 1)
DefaultShrink == Rat(1, 2)
DefaultMapLr == Rat(1, 10)

\* values on both sides of each documented range
Dropouts == {Rat(-1, 10), Rat(0, 1), Rat(9, 10), Rat(1, 1)}
InputDropouts == {Rat(-1, 10), DefaultInputDropout, Rat(1, 1)}
Smooths == {Rat(-1, 10), Rat(0, 1), DefaultSmooth, Rat(1, 2)}
Lambdas == {Rat(-1, 1), Rat(0, 1), DefaultLambda}
Shrinks == {Rat(0, 1), DefaultShrink, Rat(1, 1), Rat(11, 10)}
Decays == {Rat(1, 1), Rat(9, 10)}
MinLrs == {Rat(3, 100), Rat(6, 100), Rat(1, 5)}
InputFiles == {"none", "missing", "file"}

Scores == 1..MaxScore
NoScore == -1

(* ------------------------------- state -------------------------------- *)
VARIABLES
    pc,             \* line of bert_gan.py about to be executed, "done" or "failed"
    args,           \* the parsed command line (line 90)
    n_batches,      \* len(train_loader): batches the input corpus yields per epoch
    src_sentences,  \* sentences in the file named by --src_file
    output,         \* records written to the file named by --output_file
    error,          \* the uncaught exception, if any: [type, line]
    trace,          \* calls made on the collaborators and phase banners, in order
    n_epoch,        \* train_adv: loop variable of line 143
    n_batch,        \* train_adv: batches consumed from train_loader in this epoch
    n_dis_step,     \* train_adv: counter of line 148
    n_map_step,     \* train_adv: counter of line 149
    n_iter,         \* refine: loop variable of line 206
    sent_sim,       \* the local sent_sim of train_adv / refine
    mapping,        \* version of the trainer's Mapping
    discriminator,  \* number of updates the Discriminator has received
    fresh,          \* next unused Mapping version
    score_of,       \* validation score of each Mapping version evaluated so far
    best,           \* BestCheckpoint: [has, score, mapping]
    prev_score,     \* update_lr: score recorded at the previous epoch
    lr,             \* map_optimizer.param_groups[0]['lr']
    evals,          \* every evaluation made so far: [score, mapping]
    lrs             \* the learning rate left by each update_lr so far

\* the prediction input and output files
predVars == <<src_sentences, output>>

vars ==
    <<pc, args, n_batches, src_sentences, output, error, trace, n_epoch, n_batch, n_dis_step, n_map_step,
      n_iter, sent_sim, mapping, discriminator, fresh, score_of, best, prev_score,
      lr, evals, lrs>>

loopVars == <<n_epoch, n_batch, n_dis_step, n_map_step, n_iter, sent_sim>>
trainerVars ==
    <<mapping, discriminator, fresh, score_of, best, prev_score, lr, evals, lrs>>

NoError == [type |-> "none", line |-> 0]
Raise(type, line) == [type |-> type, line |-> line]

Log(e) == Append(trace, e)

(* --------------------------- initial states --------------------------- *)
\* training runs followed by a prediction pass: options within their documented
\* ranges and inputs present, every schedule, learning rate option and length of
\* the run
RunArgs ==
    {a \in [dis_dropout : {DefaultDropout},
            dis_input_dropout : {DefaultInputDropout},
            dis_smooth : {DefaultSmooth},
            dis_lambda : {DefaultLambda},
            dis_steps : 1..MaxDisSteps,
            lr_shrink : {DefaultShrink},
            lr_decay : Decays,
            min_lr : MinLrs,
            adversarial : {TRUE},
            model_path : {TRUE},
            input_file : {"file"},
            n_epochs : 0..MaxEvals,
            n_refinement : 0..MaxEvals,
            pred : {TRUE},
            src_file : {TRUE},
            output_file : {TRUE}] :
        a.n_epochs + a.n_refinement <= MaxEvals}

\* the driver: every combination of phase flags and of present and missing inputs
MainArgs ==
    [dis_dropout : {DefaultDropout},
     dis_input_dropout : {DefaultInputDropout},
     dis_smooth : {DefaultSmooth},
     dis_lambda : {DefaultLambda},
     dis_steps : 1..MaxDisSteps,
     lr_shrink : {DefaultShrink},
     lr_decay : {One},
     min_lr : {Rat(3, 100)},
     adversarial : BOOLEAN,
     model_path : BOOLEAN,
     input_file : InputFiles,
     n_epochs : 0..1,
     n_refinement : 0..1,
     pred : BOOLEAN,
     src_file : BOOLEAN,
     output_file : BOOLEAN]

\* the constructor: every option on both sides of its documented range
ConfigArgs ==
    [dis_dropout : Dropouts,
     dis_input_dropout : InputDropouts,
     dis_smooth : Smooths,
     dis_lambda : Lambdas,
     dis_steps : 0..MaxDisSteps,
     lr_shrink : Shrinks,
     lr_decay : {One},
     min_lr : {Rat(3, 100)},
     adversarial : BOOLEAN,
     model_path : BOOLEAN,
     input_file : InputFiles,
     n_epochs : {1},
     n_refinement : {1},
     pred : {TRUE},
     src_file : {TRUE},
     output_file : {TRUE}]

StartState ==
    /\ pc = "main_92"
    /\ n_batches \in 1..MaxBatches
    /\ output = <<>>
    /\ error = NoError
    /\ trace = <<>>
    /\ n_epoch = 0
    /\ n_batch = 0
    /\ n_dis_step = 0
    /\ n_map_step = 0
    /\ n_iter = 0
    /\ sent_sim = NoScore
    /\ mapping = 0
    /\ discriminator = 0
    /\ fresh = 1
    /\ score_of = <<>>
    /\ best = [has |-> FALSE, score |-> NoScore, mapping |-> 0]
    /\ prev_score = NoScore
    /\ lr = DefaultMapLr
    /\ evals = <<>>
    /\ lrs = <<>>

Init ==
    /\ args \in RunArgs
    /\ src_sentences = MaxSentences
    /\ StartState

InitMain ==
    /\ args \in MainArgs
    /\ src_sentences \in 1..MaxSentences
    /\ StartState

InitConfig ==
    /\ args \in ConfigArgs
    /\ src_sentences = MaxSentences
    /\ StartState

(* -------------------- collaborators (src.bert_trainer, ...) ----------- *)
\* BertTrainer.save_best: the checkpoint is created by the first evaluation and
\* overwritten whenever a strictly better score is observed
SaveBest(b, score, m) ==
    IF ~b.has \/ score > b.score
    THEN [has |-> TRUE, score |-> score, mapping |-> m]
    ELSE b

\* BertTrainer.update_lr: one step decay per epoch, and one multiplication by
\* lr_shrink when the score did not improve over the previous epoch's score
UpdateLr(l, prev, score, a) ==
    LET decayed == Mul(l, a.lr_decay)
    IN  IF prev # NoScore /\ score <= prev
        THEN Mul(decayed, a.lr_shrink)
        ELSE decayed

\* BertTrainer.reload_best restores the Mapping stored in the BestCheckpoint;
\* there is nothing to restore before the first save_best
CanReload(b) == b.has
ReloadBest(b) == b.mapping

\* BertEvaluator.sent_sim is a read of the current Mapping: the same Mapping
\* always gets the same score
ScoreChoices(m, known) ==
    IF m \in DOMAIN known THEN {known[m]} ELSE Scores

(* ------------------------- AdvBert.__init__ --------------------------- *)
InRange(lo, x, hi) == Leq(lo, x) /\ Less(x, hi)

\* __init__ without the assertion of line 113
InitFailure_NoShrinkCheck(a) ==
    IF ~InRange(Zero, a.dis_dropout, One) THEN Raise("AssertionError", 109)
    ELSE IF ~InRange(Zero, a.dis_input_dropout, One) THEN Raise("AssertionError", 110)
    ELSE IF ~InRange(Zero, a.dis_smooth, Half) THEN Raise("AssertionError", 111)
    ELSE IF ~(Less(Zero, a.dis_lambda) /\ a.dis_steps > 0) THEN Raise("AssertionError", 112)
    ELSE IF a.adversarial /\ ~a.model_path THEN Raise("AssertionError", 115)
    ELSE IF a.adversarial /\ a.input_file = "none" THEN Raise("TypeError", 119)
    ELSE IF a.adversarial /\ a.input_file = "missing" THEN Raise("AssertionError", 119)
    ELSE IF ~a.adversarial THEN Raise("AttributeError", 125)
    ELSE NoError

\* __init__ without the assertion of line 119
InitFailure_NoFileCheck(a) ==
    IF ~InRange(Zero, a.dis_dropout, One) THEN Raise("AssertionError", 109)
    ELSE IF ~InRange(Zero, a.dis_input_dropout, One) THEN Raise("AssertionError", 110)
    ELSE IF ~InRange(Zero, a.dis_smooth, Half) THEN Raise("AssertionError", 111)
    ELSE IF ~(Less(Zero, a.dis_lambda) /\ a.dis_steps > 0) THEN Raise("AssertionError", 112)
    ELSE IF ~(Less(Zero, a.lr_shrink) /\ Leq(a.lr_shrink, One)) THEN Raise("AssertionError", 113)
    ELSE IF a.adversarial /\ ~a.model_path THEN Raise("AssertionError", 115)
    ELSE IF ~a.adversarial THEN Raise("AttributeError", 125)
    ELSE NoError

\* the first statement of __init__ that raises, line 0 when none does
InitFailure(a) ==
    IF ~InRange(Zero, a.dis_dropout, One) THEN Raise("AssertionError", 109)
    ELSE IF ~InRange(Zero, a.dis_input_dropout, One) THEN Raise("AssertionError", 110)
    ELSE IF ~InRange(Zero, a.dis_smooth, Half) THEN Raise("AssertionError", 111)
    ELSE IF ~(Less(Zero, a.dis_lambda) /\ a.dis_steps > 0) THEN Raise("AssertionError", 112)
    ELSE IF ~(Less(Zero, a.lr_shrink) /\ Leq(a.lr_shrink, One)) THEN Raise("AssertionError", 113)
    ELSE IF a.adversarial /\ ~a.model_path THEN Raise("AssertionError", 115)
    ELSE IF a.adversarial /\ a.input_file = "none" THEN Raise("TypeError", 119)
    ELSE IF a.adversarial /\ a.input_file = "missing" THEN Raise("AssertionError", 119)
    ELSE IF ~a.adversarial THEN Raise("AttributeError", 125)
    ELSE NoError

\* the collaborators __init__ calls, with the line of each call
InitCalls(a) ==
    <<[line |-> 117, op |-> "initialize_exp"]>>
    \o (IF a.adversarial THEN <<[line |-> 120, op |-> "load"]>> ELSE <<>>)
    \o <<[line |-> 124, op |-> "build_model"],
         [line |-> 125, op |-> "BertTrainer"],
         [line |-> 126, op |-> "BertEvaluator"]>>

Done(c, f) == f.line = 0 \/ c.line < f.line

RECURSIVE OpsBefore(_, _)
OpsBefore(calls, f) ==
    IF calls = <<>> THEN <<>>
    ELSE IF Done(Head(calls), f)
         THEN <<Head(calls).op>> \o OpsBefore(Tail(calls), f)
         ELSE <<>>

AdvBert_init ==
    /\ pc = "main_92"
    /\ LET f == InitFailure(args)
       IN  /\ error' = f
           /\ trace' = trace \o OpsBefore(InitCalls(args), f)
           /\ pc' = IF f.line = 0 THEN "main_94" ELSE "failed"
    /\ UNCHANGED <<args, n_batches, predVars, loopVars, trainerVars>>

(* ------------------------------- main --------------------------------- *)
\* lines 94-95 and the banner and loader of train_adv, lines 138-141
main_adversarial ==
    /\ pc = "main_94"
    /\ IF args.adversarial
       THEN /\ trace' = Log("train_adv")
            /\ pc' = "adv_143"
       ELSE /\ trace' = trace
            /\ pc' = "main_97"
    /\ UNCHANGED <<args, n_batches, predVars, error, loopVars, trainerVars>>

\* lines 97-98 and the banner of refine, line 202
main_refinement ==
    /\ pc = "main_97"
    /\ IF args.n_refinement > 0
       THEN /\ trace' = Log("refine")
            /\ pc' = "ref_203"
       ELSE /\ trace' = trace
            /\ pc' = "main_100"
    /\ UNCHANGED <<args, n_batches, predVars, error, loopVars, trainerVars>>

\* lines 100-101
main_pred ==
    /\ pc = "main_100"
    /\ IF args.pred
       THEN /\ trace' = Log("pred")
            /\ pc' = "pred_224"
       ELSE /\ trace' = trace
            /\ pc' = "done"
    /\ UNCHANGED <<args, n_batches, predVars, error, loopVars, trainerVars>>

(* ------------------------- AdvBert.train_adv -------------------------- *)
\* train_adv with the counters of lines 148-149 set once, before the loop
adv_epoch_NoReset ==
    /\ pc = "adv_143"
    /\ IF n_epoch < args.n_epochs
       THEN /\ trace' = Log("epoch")
            /\ n_batch' = 0
            /\ pc' = "adv_151"
       ELSE /\ trace' = trace
            /\ n_batch' = n_batch
            /\ pc' = "main_97"
    /\ UNCHANGED <<args, n_batches, predVars, error, n_epoch, n_dis_step, n_map_step, n_iter,
                   sent_sim, trainerVars>>

\* line 143 with the learning-rate floor tested at the head of the loop
adv_epoch_FloorFirst ==
    /\ pc = "adv_143"
    /\ IF n_epoch < args.n_epochs /\ ~Less(lr, args.min_lr)
       THEN /\ trace' = Log("epoch")
            /\ n_batch' = 0
            /\ n_dis_step' = 0
            /\ n_map_step' = 0
            /\ pc' = "adv_151"
       ELSE /\ trace' = trace
            /\ UNCHANGED <<n_batch, n_dis_step, n_map_step>>
            /\ pc' = "main_97"
    /\ UNCHANGED <<args, n_batches, predVars, error, n_epoch, n_iter, sent_sim, trainerVars>>

\* line 143: next value of range(n_epochs), and lines 145-150
adv_epoch ==
    /\ pc = "adv_143"
    /\ IF n_epoch < args.n_epochs
       THEN /\ trace' = Log("epoch")
            /\ n_batch' = 0
            /\ n_dis_step' = 0
            /\ n_map_step' = 0
            /\ pc' = "adv_151"
       ELSE /\ trace' = trace
            /\ UNCHANGED <<n_batch, n_dis_step, n_map_step>>
            /\ pc' = "main_97"
    /\ UNCHANGED <<args, n_batches, predVars, error, n_epoch, n_iter, sent_sim, trainerVars>>

\* line 151: the loader is exhausted
adv_batches_done ==
    /\ pc = "adv_151"
    /\ n_batch = n_batches
    /\ pc' = "adv_182"
    /\ UNCHANGED <<args, n_batches, predVars, error, trace, loopVars, trainerVars>>

\* lines 151-162 with the counter tested before it is incremented
adv_dis_step_TestsFirst ==
    /\ pc = "adv_151"
    /\ n_batch < n_batches
    /\ n_batch' = n_batch + 1
    /\ discriminator' = discriminator + 1
    /\ trace' = Log("dis_step")
    /\ n_dis_step' = n_dis_step + 1
    /\ pc' = IF n_dis_step % args.dis_steps = 0 THEN "adv_163" ELSE "adv_151"
    /\ UNCHANGED <<args, n_batches, predVars, error, n_epoch, n_map_step, n_iter, sent_sim,
                   mapping, fresh, score_of, best, prev_score, lr, evals, lrs>>

\* lines 151-162: one batch, its dis_step and the test of the counter
adv_dis_step ==
    /\ pc = "adv_151"
    /\ n_batch < n_batches
    /\ n_batch' = n_batch + 1
    /\ discriminator' = discriminator + 1
    /\ trace' = Log("dis_step")
    /\ n_dis_step' = n_dis_step + 1
    /\ pc' = IF (n_dis_step + 1) % args.dis_steps = 0 THEN "adv_163" ELSE "adv_151"
    /\ UNCHANGED <<args, n_batches, predVars, error, n_epoch, n_map_step, n_iter, sent_sim,
                   mapping, fresh, score_of, best, prev_score, lr, evals, lrs>>

\* lines 163-164
adv_mapping_step ==
    /\ pc = "adv_163"
    /\ mapping' = fresh
    /\ fresh' = fresh + 1
    /\ trace' = Log("mapping_step")
    /\ n_map_step' = n_map_step + 1
    /\ pc' = "adv_151"
    /\ UNCHANGED <<args, n_batches, predVars, error, n_epoch, n_batch, n_dis_step, n_iter,
                   sent_sim, discriminator, score_of, best, prev_score, lr, evals, lrs>>

\* line 182
adv_sent_sim ==
    /\ pc = "adv_182"
    /\ \E s \in ScoreChoices(mapping, score_of) :
         /\ sent_sim' = s
         /\ score_of' = (mapping :> s) @@ score_of
         /\ evals' = Append(evals, [score |-> s, mapping |-> mapping])
    /\ trace' = Log("sent_sim")
    /\ pc' = "adv_183"
    /\ UNCHANGED <<args, n_batches, predVars, error, n_epoch, n_batch, n_dis_step, n_map_step,
                   n_iter, mapping, discriminator, fresh, best, prev_score, lr, lrs>>

\* line 183 left out: the epoch goes from sent_sim straight to save_best
adv_eval_dis_Skipped ==
    /\ pc = "adv_183"
    /\ pc' = "adv_187"
    /\ UNCHANGED <<args, n_batches, predVars, error, trace, loopVars, trainerVars>>

\* line 183 with an eval_dis that trains the Mapping instead of only reading it
adv_eval_dis_Trains ==
    /\ pc = "adv_183"
    /\ mapping' = fresh
    /\ fresh' = fresh + 1
    /\ trace' = Log("eval_dis")
    /\ pc' = "adv_187"
    /\ UNCHANGED <<args, n_batches, predVars, error, loopVars, discriminator, score_of, best,
                   prev_score, lr, evals, lrs>>

\* line 183
adv_eval_dis ==
    /\ pc = "adv_183"
    /\ trace' = Log("eval_dis")
    /\ pc' = "adv_187"
    /\ UNCHANGED <<args, n_batches, predVars, error, loopVars, trainerVars>>

\* line 187
adv_save_best ==
    /\ pc = "adv_187"
    /\ best' = SaveBest(best, sent_sim, mapping)
    /\ trace' = Log("save_best")
    /\ pc' = "adv_191"
    /\ UNCHANGED <<args, n_batches, predVars, error, loopVars, mapping, discriminator, fresh,
                   score_of, prev_score, lr, evals, lrs>>

\* line 191 executed twice in the same epoch
adv_update_lr_Twice ==
    LET once == UpdateLr(lr, prev_score, sent_sim, args)
        twice == UpdateLr(once, sent_sim, sent_sim, args)
    IN  /\ pc = "adv_191"
        /\ lr' = twice
        /\ lrs' = Append(lrs, twice)
        /\ prev_score' = sent_sim
        /\ trace' = Log("update_lr")
        /\ pc' = "adv_192"
        /\ UNCHANGED <<args, n_batches, predVars, error, loopVars, mapping, discriminator,
                       fresh, score_of, best, evals>>

\* line 191
adv_update_lr ==
    /\ pc = "adv_191"
    /\ lr' = UpdateLr(lr, prev_score, sent_sim, args)
    /\ lrs' = Append(lrs, UpdateLr(lr, prev_score, sent_sim, args))
    /\ prev_score' = sent_sim
    /\ trace' = Log("update_lr")
    /\ pc' = "adv_192"
    /\ UNCHANGED <<args, n_batches, predVars, error, loopVars, mapping, discriminator, fresh,
                   score_of, best, evals>>

\* the test of line 192 never taken
adv_check_lr_NoBreak ==
    /\ pc = "adv_192"
    /\ pc' = "adv_143"
    /\ n_epoch' = n_epoch + 1
    /\ UNCHANGED <<args, n_batches, predVars, error, trace, n_batch, n_dis_step, n_map_step,
                   n_iter, sent_sim, trainerVars>>

\* the test of line 192 made on the learning rate as it was before update_lr
adv_check_lr_Stale ==
    /\ pc = "adv_192"
    /\ IF Len(lrs) >= 2 /\ Less(lrs[Len(lrs) - 1], args.min_lr)
       THEN /\ pc' = "main_97"
            /\ n_epoch' = n_epoch
       ELSE /\ pc' = "adv_143"
            /\ n_epoch' = n_epoch + 1
    /\ UNCHANGED <<args, n_batches, predVars, error, trace, n_batch, n_dis_step, n_map_step,
                   n_iter, sent_sim, trainerVars>>

\* lines 192-194, and the step of the for loop of line 143
adv_check_lr ==
    /\ pc = "adv_192"
    /\ IF Less(lr, args.min_lr)
       THEN /\ pc' = "main_97"
            /\ n_epoch' = n_epoch
       ELSE /\ pc' = "adv_143"
            /\ n_epoch' = n_epoch + 1
    /\ UNCHANGED <<args, n_batches, predVars, error, trace, n_batch, n_dis_step, n_map_step,
                   n_iter, sent_sim, trainerVars>>

(* --------------------------- AdvBert.refine --------------------------- *)
\* refine without the call of line 203
ref_reload_best_Skipped ==
    /\ pc = "ref_203"
    /\ pc' = "ref_206"
    /\ UNCHANGED <<args, n_batches, predVars, error, trace, loopVars, trainerVars>>

\* line 203
ref_reload_best ==
    /\ pc = "ref_203"
    /\ trace' = Log("reload_best")
    /\ IF CanReload(best)
       THEN /\ mapping' = ReloadBest(best)
            /\ error' = error
            /\ pc' = "ref_206"
       ELSE /\ mapping' = mapping
            /\ error' = Raise("NoCheckpoint", 203)
            /\ pc' = "failed"
    /\ UNCHANGED <<args, n_batches, predVars, loopVars, discriminator, fresh, score_of, best,
                   prev_score, lr, evals, lrs>>

\* the loop of line 206 with a convergence test: it ends at the first iteration
\* that did not improve the checkpoint
ref_iteration_EarlyExit ==
    /\ pc = "ref_206"
    /\ IF n_iter < args.n_refinement /\ (n_iter = 0 \/ best.mapping = mapping)
       THEN /\ trace' = Log("iteration")
            /\ pc' = "ref_211"
       ELSE /\ trace' = trace
            /\ pc' = "main_100"
    /\ UNCHANGED <<args, n_batches, predVars, error, loopVars, trainerVars>>

\* line 206: next value of range(n_refinement), and line 208
ref_iteration ==
    /\ pc = "ref_206"
    /\ IF n_iter < args.n_refinement
       THEN /\ trace' = Log("iteration")
            /\ pc' = "ref_211"
       ELSE /\ trace' = trace
            /\ pc' = "main_100"
    /\ UNCHANGED <<args, n_batches, predVars, error, loopVars, trainerVars>>

\* line 211
ref_procrustes ==
    /\ pc = "ref_211"
    /\ mapping' = fresh
    /\ fresh' = fresh + 1
    /\ trace' = Log("procrustes")
    /\ pc' = "ref_213"
    /\ UNCHANGED <<args, n_batches, predVars, error, loopVars, discriminator, score_of, best,
                   prev_score, lr, evals, lrs>>

\* line 213
ref_sent_sim ==
    /\ pc = "ref_213"
    /\ \E s \in ScoreChoices(mapping, score_of) :
         /\ sent_sim' = s
         /\ score_of' = (mapping :> s) @@ score_of
         /\ evals' = Append(evals, [score |-> s, mapping |-> mapping])
    /\ trace' = Log("sent_sim")
    /\ pc' = "ref_217"
    /\ UNCHANGED <<args, n_batches, predVars, error, n_epoch, n_batch, n_dis_step, n_map_step,
                   n_iter, mapping, discriminator, fresh, best, prev_score, lr, lrs>>

\* line 217 writing the checkpoint whatever the score
ref_save_best_Unconditional ==
    /\ pc = "ref_217"
    /\ best' = [has |-> TRUE, score |-> sent_sim, mapping |-> mapping]
    /\ trace' = Log("save_best")
    /\ n_iter' = n_iter + 1
    /\ pc' = "ref_206"
    /\ UNCHANGED <<args, n_batches, predVars, error, n_epoch, n_batch, n_dis_step, n_map_step,
                   sent_sim, mapping, discriminator, fresh, score_of, prev_score, lr,
                   evals, lrs>>

\* lines 217-218, and the step of the for loop of line 206
ref_save_best ==
    /\ pc = "ref_217"
    /\ best' = SaveBest(best, sent_sim, mapping)
    /\ trace' = Log("save_best")
    /\ n_iter' = n_iter + 1
    /\ pc' = "ref_206"
    /\ UNCHANGED <<args, n_batches, predVars, error, n_epoch, n_batch, n_dis_step, n_map_step,
                   sent_sim, mapping, discriminator, fresh, score_of, prev_score, lr,
                   evals, lrs>>

(* ---------------------------- AdvBert.pred ---------------------------- *)
\* lines 224-225
pred_assert ==
    /\ pc = "pred_224"
    /\ IF ~args.src_file
       THEN /\ error' = Raise("AssertionError", 224)
            /\ pc' = "failed"
       ELSE IF ~args.output_file
            THEN /\ error' = Raise("AssertionError", 225)
                 /\ pc' = "failed"
            ELSE /\ error' = error
                 /\ pc' = "pred_227"
    /\ UNCHANGED <<args, n_batches, predVars, trace, loopVars, trainerVars>>

\* line 227 writing the checkpoint instead of reading it
pred_reload_best_Overwrites ==
    /\ pc = "pred_227"
    /\ trace' = Log("reload_best")
    /\ best' = [has |-> TRUE, score |-> sent_sim, mapping |-> mapping]
    /\ pc' = "pred_228"
    /\ UNCHANGED <<args, n_batches, predVars, error, loopVars, mapping, discriminator, fresh,
                   score_of, prev_score, lr, evals, lrs>>

\* line 227
pred_reload_best ==
    /\ pc = "pred_227"
    /\ trace' = Log("reload_best")
    /\ IF CanReload(best)
       THEN /\ mapping' = ReloadBest(best)
            /\ error' = error
            /\ pc' = "pred_228"
       ELSE /\ mapping' = mapping
            /\ error' = Raise("NoCheckpoint", 227)
            /\ pc' = "failed"
    /\ UNCHANGED <<args, n_batches, predVars, loopVars, discriminator, fresh, score_of, best,
                   prev_score, lr, evals, lrs>>

\* line 228: the name load_single is bound nowhere in the module
pred_load_single ==
    /\ pc = "pred_228"
    /\ error' = Raise("NameError", 228)
    /\ pc' = "failed"
    /\ UNCHANGED <<args, n_batches, predVars, trace, loopVars, trainerVars>>

(* --------------------------- specifications --------------------------- *)
Next ==
    \/ AdvBert_init
    \/ main_adversarial
    \/ main_refinement
    \/ main_pred
    \/ adv_epoch
    \/ adv_batches_done
    \/ adv_dis_step
    \/ adv_mapping_step
    \/ adv_sent_sim
    \/ adv_eval_dis
    \/ adv_save_best
    \/ adv_update_lr
    \/ adv_check_lr
    \/ ref_reload_best
    \/ ref_iteration
    \/ ref_procrustes
    \/ ref_sent_sim
    \/ ref_save_best
    \/ pred_assert
    \/ pred_reload_best
    \/ pred_load_single

Spec == Init /\ [][Next]_vars
SpecMain == InitMain /\ [][Next]_vars
SpecConfig == InitConfig /\ [][Next]_vars

(* ------------------------ reading the trace --------------------------- *)
Occurs(op) == \E i \in DOMAIN trace : trace[i] = op
Count(op) == Cardinality({i \in DOMAIN trace : trace[i] = op})
Last == IF trace = <<>> THEN "" ELSE trace[Len(trace)]
Constructed == pc # "main_92"
FailedAt(lines) == pc = "failed" /\ error.line \in lines

\* the work of the adversarial and refinement phases
TrainingOps == {"dis_step", "mapping_step", "procrustes", "save_best"}
\* everything a batch or an end of epoch does
BatchOps ==
    {"load", "dis_step", "mapping_step", "sent_sim", "eval_dis", "save_best",
     "update_lr"}

(* ------------------------------ C1 ------------------------------------ *)
OutsideRange(a) ==
    \/ Less(a.dis_dropout, Zero) \/ Leq(One, a.dis_dropout)
    \/ Less(a.dis_input_dropout, Zero) \/ Leq(One, a.dis_input_dropout)
    \/ Less(a.dis_smooth, Zero) \/ Leq(Half, a.dis_smooth)
    \/ Leq(a.dis_lambda, Zero)
    \/ a.dis_steps <= 0
    \/ Leq(a.lr_shrink, Zero) \/ Less(One, a.lr_shrink)

\* C1: with dis_dropout or dis_input_dropout outside [0,1), dis_smooth outside
\* [0,0.5), dis_lambda <= 0, dis_steps <= 0 or lr_shrink outside (0,1], the
\* constructor fails on one of its assertions (lines 109-113), and no dataset
\* load, dis_step, mapping_step, evaluation, save_best or update_lr has run.
C1_OutOfRangeFailsAtConstruction ==
    (Constructed /\ OutsideRange(args)) =>
        /\ FailedAt(109..113)
        /\ error.type = "AssertionError"
        /\ \A i \in DOMAIN trace : trace[i] \notin BatchOps

\* a constructor that failed on the learning rate shrink alone, everything else
\* being in range and the inputs present
C1_Witness ==
    /\ FailedAt({113})
    /\ args.lr_shrink = Rat(11, 10)
    /\ args.adversarial /\ args.model_path /\ args.input_file = "file"
    /\ trace = <<>>

(* ------------------------------ C2 ------------------------------------ *)
\* dis_steps among t[1..i], counted back from t[i] to the nearest event of stops
RECURSIVE DisRun(_, _, _)
DisRun(t, i, stops) ==
    IF i = 0 \/ t[i] \in stops THEN 0
    ELSE (IF t[i] = "dis_step" THEN 1 ELSE 0) + DisRun(t, i - 1, stops)

\* C2 as stated: over all epochs taken together, every mapping_step is preceded
\* by exactly K = dis_steps dis_steps since the previous mapping_step (or since
\* the start of training).
C2_CadenceAcrossEpochs ==
    Last = "mapping_step" =>
        DisRun(trace, Len(trace) - 1, {"mapping_step"}) = args.dis_steps

\* C2 amended: within each epoch, every mapping_step is preceded by exactly K
\* dis_steps since the previous mapping_step of that epoch (or since the start
\* of that epoch), and the K-th dis_step of a run is always followed by a
\* mapping_step; the dis_steps left at the end of an epoch are not carried over.
C2_CadenceWithinEpoch ==
    LET stops == {"mapping_step", "epoch"}
        d == DisRun(trace, Len(trace), stops)
    IN  /\ Last = "mapping_step" =>
              DisRun(trace, Len(trace) - 1, stops) = args.dis_steps
        /\ Last = "dis_step" =>
              /\ d <= args.dis_steps
              /\ d = args.dis_steps <=> pc = "adv_163"

\* a mapping_step of a later epoch, after an epoch that left dis_steps over
C2_Witness ==
    /\ Last = "mapping_step"
    /\ n_epoch >= 1
    /\ n_batches % args.dis_steps # 0

(* ------------------------------ C3 ------------------------------------ *)
AdvPcs ==
    {"adv_143", "adv_151", "adv_163", "adv_182", "adv_183", "adv_187", "adv_191",
     "adv_192"}
RefPcs == {"ref_203", "ref_206", "ref_211", "ref_213", "ref_217"}
AfterAdvOps ==
    {"refine", "reload_best", "iteration", "procrustes", "sent_sim", "save_best",
     "pred"}
LastIndex(op) ==
    CHOOSE i \in DOMAIN trace : trace[i] = op /\ \A j \in DOMAIN trace : trace[j] = op => j <= i

\* update_lr has left the learning rate below min_lr and line 192 has tested it
FloorHit ==
    /\ lrs # <<>>
    /\ Less(lrs[Len(lrs)], args.min_lr)
    /\ pc # "adv_192"

\* C3: once update_lr leaves the Mapping learning rate below min_lr at the end
\* of an epoch, the adversarial phase executes nothing more (no epoch, dis_step,
\* mapping_step, sent_sim, eval_dis, save_best or update_lr), it returns without
\* an error, and refinement and prediction still run when configured.
C3_FloorStopsAdversarialPhase ==
    FloorHit =>
        /\ pc \notin AdvPcs
        /\ lr = lrs[Len(lrs)]
        /\ Count("epoch") = Len(lrs)
        /\ Count("update_lr") = Len(lrs)
        /\ LET k == LastIndex("update_lr")
           IN  /\ \A i \in (k + 1)..Len(trace) : trace[i] \in AfterAdvOps
               /\ k < Len(trace) => trace[k + 1] \in {"refine", "pred"}
        /\ pc = "main_97" => error = NoError
        /\ pc = "failed" => error.line >= 224
        /\ pc \in {"done", "failed"} =>
              /\ args.n_refinement > 0 => Count("procrustes") = args.n_refinement
              /\ args.pred => Occurs("pred")

\* the floor cut the adversarial phase short of n_epochs, and both refinement
\* and prediction ran afterwards
C3_Witness ==
    /\ FloorHit
    /\ Len(lrs) < args.n_epochs
    /\ Occurs("procrustes")
    /\ Occurs("pred")
    /\ pc = "failed" /\ error.line = 228

(* ------------------------------ C4 ------------------------------------ *)
\* the scores of the epochs completed so far are strictly decreasing
Decreasing(k) == \A i \in 1..(k - 1) : evals[i].score > evals[i + 1].score

\* C4: with strictly decreasing validation scores over the epochs, update_lr
\* multiplies the learning rate by lr_shrink at each regression (epoch 2 and
\* epoch 3; epoch 1 has nothing to regress from), and train_adv starts no epoch
\* after an update that left the learning rate below min_lr.
C4_ShrinkAtEachRegressionThenStop ==
    LET k == Len(lrs)
    IN  /\ pc = "adv_192" => k = n_epoch + 1
        /\ (k >= 1 /\ k <= Len(evals) /\ Decreasing(k)) =>
              /\ lrs[1] = Mul(DefaultMapLr, args.lr_decay)
              /\ \A i \in 2..k :
                    lrs[i] = Mul(Mul(lrs[i - 1], args.lr_decay), args.lr_shrink)
              /\ \A i \in 1..k :
                    Less(lrs[i], args.min_lr) =>
                        /\ i = k
                        /\ Count("epoch") = k
                        /\ pc \in AdvPcs => pc = "adv_192"

\* 0.1 -> 0.1 -> 0.05 -> 0.025 < 0.03: three epochs, two regressions, stop
C4_Witness ==
    /\ Len(lrs) = 3
    /\ Decreasing(3)
    /\ args.lr_shrink = Half /\ args.lr_decay = One
    /\ lrs = <<Rat(1, 10), Rat(1, 20), Rat(1, 40)>>
    /\ args.min_lr = Rat(3, 100)
    /\ pc = "main_97"

(* ------------------------------ C5 ------------------------------------ *)
\* sent_sim has returned and save_best has not been called with its score yet
Pending == pc \in {"adv_183", "adv_187", "ref_217"}
Saved == IF Pending THEN Len(evals) - 1 ELSE Len(evals)
MaxEval(n) ==
    CHOOSE s \in Scores :
        /\ \E i \in 1..n : evals[i].score = s
        /\ \A i \in 1..n : evals[i].score <= s
FirstMax(n) ==
    CHOOSE i \in 1..n :
        /\ evals[i].score = MaxEval(n)
        /\ \A j \in 1..(i - 1) : evals[j].score < MaxEval(n)

\* C5: after any sequence of epochs and refinement iterations the BestCheckpoint
\* holds the Mapping of the evaluation with the highest score passed to
\* save_best so far (the first such evaluation: only a strictly greater score
\* overwrites), in the refinement phase as in the adversarial phase; its score
\* is the running maximum, so it never decreases.
C5_BestIsHighestScoreSoFar ==
    /\ Count("save_best") = Saved
    /\ best.has <=> Saved > 0
    /\ Saved > 0 =>
          /\ best.score = MaxEval(Saved)
          /\ best.mapping = evals[FirstMax(Saved)].mapping

\* in the refinement phase: the checkpoint written in the adversarial phase was
\* kept by an iteration that scored lower and replaced by one that scored higher
C5_Witness ==
    /\ pc = "ref_206"
    /\ Len(evals) = 3
    /\ Len(lrs) = 1
    /\ evals[2].score < evals[1].score
    /\ evals[3].score > evals[1].score
    /\ best.mapping = evals[3].mapping

(* ------------------------------ C6 ------------------------------------ *)
\* C6: reload_best is executed exactly once at the start of refine(), before
\* the first procrustes, and exactly once at the start of pred(), before any
\* vector is mapped; the first Procrustes solve and the prediction pass start
\* from the BestCheckpoint Mapping, not from the Mapping the last epoch or the
\* last refinement iteration left.
C6_ReloadBestAtPhaseStart ==
    /\ Count("refine") <= 1
    /\ Count("pred") <= 1
    /\ \A i \in DOMAIN trace :
          /\ trace[i] = "reload_best" => (i > 1 /\ trace[i - 1] \in {"refine", "pred"})
          /\ (trace[i] \in {"refine", "pred"} /\ i < Len(trace)) =>
                trace[i + 1] = "reload_best"
    /\ pc \in (RefPcs \ {"ref_203"}) => (Occurs("refine") /\ Last # "refine")
    /\ (pc = "ref_211" /\ n_iter = 0) => (best.has /\ mapping = best.mapping)
    /\ pc = "pred_228" => (best.has /\ mapping = best.mapping /\ Last = "reload_best")

\* the first Procrustes solve is about to run on the checkpoint of epoch 1,
\* not on the Mapping epoch 2 left
C6_Witness ==
    /\ pc = "ref_211"
    /\ n_iter = 0
    /\ Len(lrs) = 2
    /\ evals[2].mapping # evals[1].mapping
    /\ mapping = evals[1].mapping

(* ------------------------------ C10 ----------------------------------- *)
RefCycle == <<"iteration", "procrustes", "sent_sim", "save_best">>
IndexOf(op) == CHOOSE i \in DOMAIN trace : trace[i] = op
\* what refine() has done after its reload_best
RefBody ==
    LET from == IndexOf("refine") + 2
        to == IF Occurs("pred") THEN IndexOf("pred") - 1 ELSE Len(trace)
    IN  SubSeq(trace, from, to)
RefineNext ==
    ref_reload_best \/ ref_iteration \/ ref_procrustes \/ ref_sent_sim \/ ref_save_best
RefLooping == Occurs("refine") /\ Last # "refine" /\ error.line # 203

PresentInputs(a) ==
    /\ a.adversarial => (a.model_path /\ a.input_file = "file")
    /\ a.pred => (a.src_file /\ a.output_file)

\* C7: for every combination of the adversarial flag, n_refinement > 0 and the
\* pred flag, with valid options and present inputs, the constructor succeeds
\* and the phases that run are exactly the enabled ones (refine and pred also
\* with adversarial disabled).
C7_PhasesIndependentlyInvocable ==
    (Constructed /\ ~OutsideRange(args) /\ PresentInputs(args)) =>
        /\ ~FailedAt(105..131)
        /\ Occurs("train_adv") => args.adversarial
        /\ Occurs("refine") => args.n_refinement > 0
        /\ Occurs("pred") => args.pred
        /\ pc = "done" =>
              /\ args.adversarial => Occurs("train_adv")
              /\ args.n_refinement > 0 => Occurs("refine")
              /\ args.pred => Occurs("pred")

(* ------------------------------ C8 ------------------------------------ *)
\* C8: when pred is requested and src_file or output_file is missing, the run
\* fails before any dis_step, mapping_step, procrustes or save_best is executed.
C8_PredInputsCheckedBeforeTraining ==
    (pc = "failed" /\ args.pred /\ (~args.src_file \/ ~args.output_file)) =>
        \A i \in DOMAIN trace : trace[i] \notin TrainingOps

(* ------------------------------ C9 ------------------------------------ *)
\* C9: with adversarial training enabled and the input corpus missing (or
\* model_path not set), the constructor fails before the trainer and the
\* evaluator are built and before any dis_step, mapping_step, evaluation or
\* checkpoint write.
C9_MissingCorpusFailsBeforeTrainer ==
    (Constructed /\ args.adversarial /\ (args.input_file # "file" \/ ~args.model_path)) =>
        /\ FailedAt({115, 119})
        /\ \A i \in DOMAIN trace :
              trace[i] \notin (BatchOps \cup {"BertTrainer", "BertEvaluator", "build_model"})

\* the corpus file does not exist: the logger is up, nothing else is
C9_Witness ==
    /\ FailedAt({119})
    /\ args.input_file = "missing"
    /\ args.model_path
    /\ trace = <<"initialize_exp">>

(* ------------------------------ C11 ----------------------------------- *)
PredPcs == {"pred_224", "pred_227", "pred_228"}

\* C11: a phase that aborts leaves the BestCheckpoint as it was: no step of
\* pred(), and no step that ends the run with an exception (the assertions of
\* lines 224-225, the failing calls of lines 203, 227 and 228, the constructor),
\* changes the stored Mapping or the stored score.
C11_AbortKeepsCheckpoint ==
    [][(pc \in PredPcs \/ pc' = "failed") => best' = best]_vars

\* pred() has failed on its missing source file after a refinement that scored
\* below the epoch: the checkpoint is still the one the epoch wrote
C11_Witness ==
    /\ FailedAt({224})
    /\ Len(evals) = 2
    /\ evals[2].score < evals[1].score
    /\ best = [has |-> TRUE, score |-> evals[1].score, mapping |-> evals[1].mapping]

(* ------------------------------ C12 ----------------------------------- *)
\* pred() was called with both of its files and a checkpoint to reload, and
\* the run is over
PredRan ==
    /\ pc \in {"done", "failed"}
    /\ Occurs("pred")
    /\ args.src_file
    /\ args.output_file
    /\ best.has

\* C12: pred() writes one record per sentence of src_file, in input order,
\* the i-th record carrying the i-th sentence's identifier.  The code does not:
\* line 228 calls load_single, a name bound nowhere, so pred() ends with a
\* NameError before the output file is opened and no record is written.
C12_OneRecordPerSentence ==
    PredRan =>
        /\ pc = "done"
        /\ Len(output) = src_sentences
        /\ \A i \in 1..Len(output) : output[i].unique_id = i

(* ------------------------------ C13 ----------------------------------- *)
\* number of events of the run that precede refine() and pred()
AdvLen ==
    IF Occurs("refine") THEN IndexOf("refine") - 1
    ELSE IF Occurs("pred") THEN IndexOf("pred") - 1
    ELSE Len(trace)
Before(i) == IF i > 1 THEN trace[i - 1] ELSE ""
Follows(i, ops) == i < Len(trace) => trace[i + 1] \in ops
EvalPcs == {"adv_183", "adv_187", "adv_191", "adv_192"}

\* C13: an epoch ends with sent_sim, eval_dis, save_best, update_lr, once each
\* and in that order: sent_sim comes right after the last batch step of the
\* epoch (all n_batches batches consumed), each of the four is followed by the
\* next one, update_lr by the next epoch or by the end of train_adv, and an
\* epoch starts only after train_adv's banner or an update_lr.  A mapping_step
\* comes right after a dis_step, so no save_best or reload_best is in between.
C13_EndOfEpochSequence ==
    /\ pc \in EvalPcs => n_batch = n_batches /\ n_dis_step = n_batches
    /\ \A i \in 1..AdvLen :
        /\ trace[i] = "sent_sim" =>
              Before(i) \in {"dis_step", "mapping_step"} /\ Follows(i, {"eval_dis"})
        /\ trace[i] = "eval_dis" =>
              Before(i) = "sent_sim" /\ Follows(i, {"save_best"})
        /\ trace[i] = "save_best" =>
              Before(i) = "eval_dis" /\ Follows(i, {"update_lr"})
        /\ trace[i] = "update_lr" =>
              Before(i) = "save_best" /\ Follows(i, {"epoch", "refine", "pred"})
        /\ trace[i] = "epoch" => Before(i) \in {"train_adv", "update_lr"}
        /\ trace[i] = "dis_step" => Before(i) \in {"epoch", "dis_step", "mapping_step"}
        /\ trace[i] = "mapping_step" => Before(i) = "dis_step"
        /\ trace[i] # "reload_best"

\* two epochs have completed and the third has run its first dis_step
C13_Witness ==
    /\ Count("update_lr") = 2
    /\ Count("save_best") = 2
    /\ Count("epoch") = 3
    /\ Last = "dis_step"

(* ------------------------------ C14 ----------------------------------- *)
\* calls of op among t[1..i], counted back from t[i] to the epoch's banner
RECURSIVE EpochRun(_, _, _)
EpochRun(t, i, op) ==
    IF i = 0 \/ t[i] = "epoch" THEN 0
    ELSE (IF t[i] = op THEN 1 ELSE 0) + EpochRun(t, i - 1, op)

Floor == n_dis_step \div args.dis_steps

\* inside an epoch: the counters count the epoch's calls, one dis_step is made
\* per batch, the mapping_step of line 163 is pending exactly after a dis_step
\* whose number is a multiple of dis_steps, and at the end of the batches
\* n_batches dis_steps and floor(n_batches / dis_steps) mapping_steps were made
EpochCounters ==
    pc \in AdvPcs \ {"adv_143"} =>
        /\ n_dis_step = n_batch
        /\ EpochRun(trace, Len(trace), "dis_step") = n_dis_step
        /\ EpochRun(trace, Len(trace), "mapping_step") = n_map_step
        /\ pc = "adv_163" <=> (Last = "dis_step" /\ n_dis_step % args.dis_steps = 0)
        /\ Last = "epoch" => n_dis_step = 0 /\ n_map_step = 0
        /\ pc \in EvalPcs \cup {"adv_182"} =>
              /\ n_dis_step = n_batches
              /\ n_map_step = n_batches \div args.dis_steps

\* C14 as stated: the counters of an epoch, with n_map_step equal to
\* floor(n_dis_step / dis_steps) in every state.
C14_MapCounterAlwaysFloor ==
    /\ EpochCounters
    /\ n_map_step = Floor

\* C14 amended: the counters of an epoch, with n_map_step equal to
\* floor(n_dis_step / dis_steps) at every batch boundary and at the end of the
\* epoch, and one less while the mapping_step of line 163 is being executed
\* (line 164 increments n_map_step only after the call).
C14_MapCounterAtBatchBoundaries ==
    /\ EpochCounters
    /\ pc # "adv_163" => n_map_step = Floor
    /\ pc = "adv_163" => n_map_step = Floor - 1

\* the batches of the second epoch are done: 3 dis_steps, 1 mapping_step
C14_Witness ==
    /\ pc = "adv_182"
    /\ n_epoch = 1
    /\ args.dis_steps = 2
    /\ n_dis_step = 3
    /\ n_map_step = 1

(* ------------------------------ C15 ----------------------------------- *)
\* the learning rate before the update_lr of epoch i
LrBefore(i) == IF i = 1 THEN DefaultMapLr ELSE lrs[i - 1]
\* the score of epoch i did not improve on the score of epoch i - 1
Regressed(i) == i > 1 /\ evals[i].score <= evals[i - 1].score

AdvReturned == Occurs("train_adv") /\ pc \notin AdvPcs
\* the steps of train_adv
AdvNext ==
    \/ adv_epoch
    \/ adv_batches_done
    \/ adv_dis_step
    \/ adv_mapping_step
    \/ adv_sent_sim
    \/ adv_eval_dis
    \/ adv_save_best
    \/ adv_update_lr
    \/ adv_check_lr
\* no learning rate recorded by the first k update_lr calls is below min_lr
AboveFloor(k) == \A i \in 1..k : ~Less(lrs[i], args.min_lr)

\* C16: train_adv starts at most n_epochs epochs, each of at most n_batches
\* batches, and always has a next step until it returns (at line 191 the next
\* step is the update_lr call, which has no condition).  Once it has returned,
\* every epoch it started was run in full (up to its update_lr); it ran n_epochs
\* epochs if no update_lr left the rate below min_lr, and otherwise stopped at
\* the first epoch whose update_lr did.  The floor is not tested before the
\* first epoch: with n_epochs >= 1 one full epoch is run even if the initial
\* rate is below min_lr.
C16_AtMostNEpochs ==
    LET k == Count("epoch")
    IN  /\ k <= args.n_epochs
        /\ Count("dis_step") <= k * n_batches
        /\ pc \in AdvPcs \ {"adv_191"} => ENABLED AdvNext
        /\ AdvReturned =>
              /\ Count("update_lr") = k
              /\ Count("dis_step") = k * n_batches
              /\ AboveFloor(k) => k = args.n_epochs
              /\ k < args.n_epochs => Less(lrs[k], args.min_lr) /\ AboveFloor(k - 1)
              /\ args.n_epochs >= 1 => k >= 1

\* the initial rate 0.1 is below min_lr = 0.2: of the n_epochs >= 2 epochs,
\* exactly one was run, in full
C16_Witness ==
    /\ AdvReturned
    /\ Less(DefaultMapLr, args.min_lr)
    /\ args.n_epochs >= 2
    /\ Count("epoch") = 1
    /\ Count("dis_step") = n_batches
    /\ Count("update_lr") = 1

(* ------------------------------ C17 ----------------------------------- *)
\* C17: every reload_best of a run comes after a save_best of the same run.
\* The code does not ensure it: with n_epochs = 0 train_adv returns without an
\* evaluation, and refine() (line 203) or pred() (line 227) calls reload_best
\* although no checkpoint was written.
C17_ReloadFollowsSave ==
    \A i \in DOMAIN trace :
        trace[i] = "reload_best" => \E j \in 1..(i - 1) : trace[j] = "save_best"

(* ------------------------------ C18 ----------------------------------- *)
\* C18: from a sent_sim to the save_best that follows it the Mapping is not
\* touched: the only call in between is eval_dis (adversarial phase), the
\* Mapping that was evaluated is still the current one when save_best is called
\* with its score, and so the stored best score is the score that sent_sim gave
\* to the stored best Mapping.
C18_SavedScoreIsScoreOfSavedMapping ==
    /\ Pending => evals[Len(evals)] = [score |-> sent_sim, mapping |-> mapping]
    /\ \A i \in DOMAIN trace :
          trace[i] = "save_best" =>
              /\ Before(i) \in {"sent_sim", "eval_dis"}
              /\ Before(i) = "eval_dis" => i > 2 /\ trace[i - 2] = "sent_sim"
    /\ best.has =>
          /\ best.mapping \in DOMAIN score_of
          /\ score_of[best.mapping] = best.score
          /\ \E k \in DOMAIN evals : evals[k] = [score |-> best.score, mapping |-> best.mapping]

\* a refinement iteration has just replaced the checkpoint of the adversarial
\* phase by its own Mapping and score
C18_Witness ==
    /\ pc = "ref_206"
    /\ n_iter = 1
    /\ Last = "save_best"
    /\ Count("save_best") = 2
    /\ best = [has |-> TRUE, score |-> sent_sim, mapping |-> mapping]
    /\ evals[1].score < sent_sim

====
